---- MODULE Spec2Model ----
(***************************************************************************)
(* Observer pattern of matils (matils/patterns/observer.py).               *)
(*                                                                         *)
(* Observable keeps a dictionary from event names to lists of observers.   *)
(* register / unregister / reset mutate that dictionary, notify walks the  *)
(* "all" list and then the list of the notified event, calling update on   *)
(* every entry.  notify is modelled one update call at a time: the two     *)
(* for-loops are list iterations (an index compared with the current       *)
(* length of the list before every element) and an update call either      *)
(* returns or raises.  patterns/observer.py is an older copy of the same   *)
(* class whose register and unregister take one event name: the calls with *)
(* a list of one event.                                                    *)
(***************************************************************************)
EXTENDS Integers, Sequences, FiniteSets, TLC

\* ---- bounds of the model ----------------------------------------------
MaxCalls == 4          \* API calls (register, unregister, reset, notify) per run
MaxEvents == 1         \* longest list of events passed to register / unregister
MaxZmqCalls == 3       \* ZMQ calls (SensorsReader.notify, observe, stop_observing) per run

Observers == {"o1", "o2"}
Events == {"all", "t1"}
Payloads == {"p1", "p2"}

NoOne == "none"

Bridges == {"b1"}          \* the ZMQObserver objects
Values == {1}              \* the readings a SensorsReader sends

VARIABLES
    observers,   \* Observable._observers: event name -> list of observers
    regOrder,    \* history: for every list entry, the number of its registration
    pc,          \* position of notify: "idle", "all" (first loop), "event" (second loop)
    idx,         \* index of the list iterator of the running for-loop
    log,         \* history: update calls made by the latest API call, in order
    result,      \* outcome of the latest notify: "none", "running", "returned", "raised"
    lastCall,    \* history: the latest API call
    before,      \* history: the API call that preceded the latest notify
    removed,     \* history: observers whose latest (un)registration is unregister(.., "all")
    clock,       \* number of API calls made so far
    bstate,      \* ZMQObserver: "absent", "created", "listening" (awaiting recv), or how
                 \* listen was left: "cancelled", "failed" (recv raised), "raised" (update raised)
    bevents,     \* ZMQObserver.events
    closed,      \* ZMQObserver.zmq_socket has been closed
    subs,        \* SUB socket: its subscriptions, filter -> number of times subscribed
    pending,     \* SUB socket: subscription messages on their way to the publisher
    upstream,    \* PUB socket: the subscriptions it knows of every connected SUB socket
    queue,       \* SUB socket: frames delivered to it and not yet received
    taken,       \* history: the frames each SUB socket took from its queue
    want,        \* history: the filters each ZMQObserver asked for, filter -> count
    ctor,        \* history: the events argument each ZMQObserver was constructed with
    filterCalls, \* history: number of observe / stop_observing calls made
    published    \* history: the notify calls of the ZMQ SensorsReader, in order

\* the variables of the in-process Observable
lvars == <<observers, regOrder, pc, idx, log, result, lastCall, before, removed, clock>>

\* the variables of the ZMQ observer and publisher
zvars == <<bstate, bevents, closed, subs, pending, upstream, queue, taken, want, ctor,
           filterCalls, published>>

vars == <<observers, regOrder, pc, idx, log, result, lastCall, before, removed, clock,
          bstate, bevents, closed, subs, pending, upstream, queue, taken, want, ctor,
          filterCalls, published>>

\* ---- helpers ----------------------------------------------------------
Range(s) == {s[i] : i \in 1..Len(s)}

In(observer, list) == observer \in Range(list)

\* list.index(x): the position of the first occurrence
FirstIndex(observer, list) ==
    CHOOSE i \in 1..Len(list) :
        list[i] = observer /\ \A j \in 1..(i - 1) : list[j] # observer

RemoveAt(list, i) == [j \in 1..(Len(list) - 1) |-> IF j < i THEN list[j] ELSE list[j + 1]]

EventLists == UNION {[1..n -> Events] : n \in 0..MaxEvents}

\* the observers held in some list of the dictionary
Held(obs) == UNION {Range(obs[e]) : e \in DOMAIN obs}

\* the lists a notify of this event walks, one after the other, as they are now
WalkOrder(event) ==
    (IF "all" \in DOMAIN observers THEN observers["all"] ELSE <<>>)
        \o (IF event \in DOMAIN observers THEN observers[event] ELSE <<>>)

Call(op, who, events, data) ==
    [op |-> op, who |-> who, events |-> events, data |-> data, held |-> Held(observers),
     order |-> IF op = "notify" THEN WalkOrder(events[1]) ELSE <<>>]

NoCall == [op |-> "none", who |-> NoOne, events |-> <<>>, data |-> "none", held |-> {},
           order |-> <<>>]

Max(S) == IF S = {} THEN 0 ELSE CHOOSE m \in S : \A x \in S : x <= m

\* the number of a new registration: later than every registration still held
Stamp(ord) == 1 + Max(UNION {Range(ord[e]) : e \in DOMAIN ord})

\* ---- Python values of the ZMQ classes ---------------------------------
\* str, bytes and list objects: val holds the code points of a str, the bytes
\* of a bytes and the reading of a dict, items the elements of a list
Str(chars) == [type |-> "str", val |-> chars, items |-> <<>>]

Bytes(bs) == [type |-> "bytes", val |-> bs, items |-> <<>>]

List(items) == [type |-> "list", val |-> <<>>, items |-> items]

\* the dictionary {'value': v} the sensors produce
Dict(v) == [type |-> "dict", val |-> <<v>>, items |-> <<>>]

NoArg == [type |-> "none", val |-> <<>>, items |-> <<>>]

AllStr == Str(<<97, 108, 108>>)        \* 'all'
EmptyStr == Str(<<>>)                   \* ''
SStr == Str(<<115>>)                    \* 's'
StStr == Str(<<115, 116>>)              \* 'st'
ShStr == Str(<<115, 104>>)              \* 'sh'

\* the event names used with the ZMQ classes
ZEvents == {AllStr, SStr, StStr, ShStr, EmptyStr}

\* UTF-8: one byte below U+0080, two bytes below U+0800
RECURSIVE Utf8(_)
Utf8(chars) ==
    IF chars = <<>>
    THEN <<>>
    ELSE LET c == Head(chars)
         IN (IF c < 128 THEN <<c>> ELSE <<192 + (c \div 64), 128 + (c % 64)>>)
                \o Utf8(Tail(chars))

\* str.encode()
Encode(str) == Bytes(Utf8(str.val))

\* str(data) of {'value': v}: "{'value': v}"
PyStr(data) ==
    Str(<<123, 39, 118, 97, 108, 117, 101, 39, 58, 32>> \o <<48 + data.val[1]>> \o <<125>>)

\* len(events)
PyLen(x) == IF x.type = "list" THEN Len(x.items) ELSE Len(x.val)

\* if type(events) == str: events = [events]
AsList(events) == IF events.type = "str" THEN <<events>> ELSE events.items

EmptyBag(S) == [x \in S |-> 0]

\* the filters a SUB socket can be given here
Filters == {Utf8(e.val) : e \in ZEvents}

IsPrefix(p, q) == Len(p) <= Len(q) /\ SubSeq(q, 1, Len(p)) = p

\* a SUB or PUB socket matches a frame's first part against a set of subscriptions
Matches(bag, topic) == \E f \in DOMAIN bag : bag[f] > 0 /\ IsPrefix(f, topic.val)

\* ---- Observable.__init__ ----------------------------------------------
EmptyDict == [e \in {} |-> <<>>]

SetKey(d, key, value) == [e \in (DOMAIN d) \cup {key} |-> IF e = key THEN value ELSE d[e]]

NewState == [obs |-> SetKey(EmptyDict, "all", <<>>), ord |-> SetKey(EmptyDict, "all", <<>>)]

Init ==
    /\ observers = NewState.obs
    /\ regOrder = NewState.ord
    /\ pc = "idle"
    /\ idx = 0
    /\ log = <<>>
    /\ result = "none"
    /\ lastCall = NoCall
    /\ before = NoCall
    /\ removed = {}
    /\ clock = 0
    /\ bstate = [b \in Bridges |-> "absent"]
    /\ bevents = [b \in Bridges |-> NoArg]
    /\ closed = [b \in Bridges |-> FALSE]
    /\ subs = [b \in Bridges |-> EmptyBag(Filters)]
    /\ pending = [b \in Bridges |-> <<>>]
    /\ upstream = [b \in Bridges |-> EmptyBag(Filters)]
    /\ queue = [b \in Bridges |-> <<>>]
    /\ taken = [b \in Bridges |-> <<>>]
    /\ want = [b \in Bridges |-> EmptyBag(Filters)]
    /\ ctor = [b \in Bridges |-> NoArg]
    /\ filterCalls = 0
    /\ published = <<>>

\* ---- Observable.register ----------------------------------------------
\* self._observers[event].append(observer)
AppendTo(st, event, observer, n) ==
    [obs |-> [st.obs EXCEPT ![event] = Append(@, observer)],
     ord |-> [st.ord EXCEPT ![event] = Append(@, n)]]

\* except KeyError: self._observers[event] = [observer]
SetGroup(st, event, observer, n) ==
    [obs |-> SetKey(st.obs, event, <<observer>>),
     ord |-> SetKey(st.ord, event, <<n>>)]

\* register whose KeyError handler creates the list but leaves the observer out
RegisterEventEmptyGroup(st, observer, event, n) ==
    IF event \notin DOMAIN st.obs
    THEN [obs |-> SetKey(st.obs, event, <<>>), ord |-> SetKey(st.ord, event, <<>>)]
    ELSE IF ~In(observer, st.obs[event])
         THEN AppendTo(st, event, observer, n)
         ELSE IF "all" \notin DOMAIN st.obs
              THEN [obs |-> SetKey(st.obs, event, <<>>), ord |-> SetKey(st.ord, event, <<>>)]
              ELSE IF ~In(observer, st.obs["all"])
                   THEN AppendTo(st, event, observer, n)
                   ELSE st

\* register that puts the observer at the head of the list (insert(0, observer))
RegisterEventAtHead(st, observer, event, n) ==
    IF event \notin DOMAIN st.obs
    THEN SetGroup(st, event, observer, n)
    ELSE IF ~In(observer, st.obs[event]) \/ ~In(observer, st.obs["all"])
         THEN [obs |-> [st.obs EXCEPT ![event] = <<observer>> \o @],
               ord |-> [st.ord EXCEPT ![event] = <<n>> \o @]]
         ELSE st

\* register with a membership test over every list: an observer that is held
\* anywhere is not added again
RegisterEventDedup(st, observer, event, n) ==
    IF observer \in Held(st.obs)
    THEN st
    ELSE IF event \notin DOMAIN st.obs
         THEN SetGroup(st, event, observer, n)
         ELSE AppendTo(st, event, observer, n)

\* the body of "for event in events" of register
RegisterEvent(st, observer, event, n) ==
    IF event \notin DOMAIN st.obs
    THEN SetGroup(st, event, observer, n)
    ELSE IF ~In(observer, st.obs[event])
         THEN AppendTo(st, event, observer, n)
         ELSE IF "all" \notin DOMAIN st.obs
              THEN SetGroup(st, event, observer, n)
              ELSE IF ~In(observer, st.obs["all"])
                   THEN AppendTo(st, event, observer, n)
                   ELSE st

RECURSIVE RegisterEvents(_, _, _, _)
RegisterEvents(st, observer, events, i) ==
    IF i > Len(events)
    THEN st
    ELSE RegisterEvents(RegisterEvent(st, observer, events[i], Stamp(st.ord)),
                        observer, events, i + 1)

Register(observer, events) ==
    /\ pc = "idle"
    /\ clock < MaxCalls
    /\ LET st == RegisterEvents([obs |-> observers, ord |-> regOrder],
                                observer, events, 1)
       IN /\ observers' = st.obs
          /\ regOrder' = st.ord
    /\ removed' = IF events = <<>> THEN removed ELSE removed \ {observer}
    /\ lastCall' = Call("register", observer, events, "none")
    /\ before' = NoCall
    /\ clock' = clock + 1
    /\ log' = <<>>
    /\ UNCHANGED <<pc, idx, result>>
    /\ UNCHANGED zvars

\* ---- Observable.unregister --------------------------------------------
\* if observer in observers: observers.remove(observer)
RemoveFrom(st, event, observer) ==
    IF In(observer, st.obs[event])
    THEN LET i == FirstIndex(observer, st.obs[event])
         IN [obs |-> [st.obs EXCEPT ![event] = RemoveAt(@, i)],
             ord |-> [st.ord EXCEPT ![event] = RemoveAt(@, i)]]
    ELSE st

\* for registered_event, observers in self._observers.items(): ...
RemoveEverywhere(st, observer) ==
    [obs |-> [e \in DOMAIN st.obs |-> RemoveFrom(st, e, observer).obs[e]],
     ord |-> [e \in DOMAIN st.obs |-> RemoveFrom(st, e, observer).ord[e]]]

\* unregister that takes the "all" branch for every event name
UnregisterEventEverywhere(st, observer, event) == RemoveEverywhere(st, observer)

\* the body of "for event in events" of unregister
UnregisterEvent(st, observer, event) ==
    IF event = "all"
    THEN RemoveEverywhere(st, observer)
    ELSE IF event \in DOMAIN st.obs
         THEN RemoveFrom(st, event, observer)
         ELSE st

RECURSIVE UnregisterEvents(_, _, _, _)
UnregisterEvents(st, observer, events, i) ==
    IF i > Len(events)
    THEN st
    ELSE UnregisterEvents(UnregisterEvent(st, observer, events[i]), observer, events, i + 1)

Unregister(observer, events) ==
    /\ pc = "idle"
    /\ clock < MaxCalls
    /\ LET st == UnregisterEvents([obs |-> observers, ord |-> regOrder], observer, events, 1)
       IN /\ observers' = st.obs
          /\ regOrder' = st.ord
    /\ removed' = IF "all" \in Range(events) THEN removed \cup {observer} ELSE removed
    /\ lastCall' = Call("unregister", observer, events, "none")
    /\ before' = NoCall
    /\ clock' = clock + 1
    /\ log' = <<>>
    /\ UNCHANGED <<pc, idx, result>>
    /\ UNCHANGED zvars

\* ---- Observable.reset -------------------------------------------------
\* reset without the clear(): only the "all" list is emptied
ResetKeepsGroups(st) ==
    [obs |-> SetKey(st.obs, "all", <<>>), ord |-> SetKey(st.ord, "all", <<>>)]

\* reset without the second statement: the dictionary is left empty
ResetDropsAll(st) == [obs |-> EmptyDict, ord |-> EmptyDict]

\* self._observers.clear(); self._observers['all'] = list()
ResetState(st) ==
    [obs |-> SetKey(EmptyDict, "all", <<>>), ord |-> SetKey(EmptyDict, "all", <<>>)]

Reset ==
    /\ pc = "idle"
    /\ clock < MaxCalls
    /\ LET st == ResetState([obs |-> observers, ord |-> regOrder])
       IN /\ observers' = st.obs
          /\ regOrder' = st.ord
    /\ lastCall' = Call("reset", NoOne, <<>>, "none")
    /\ before' = NoCall
    /\ clock' = clock + 1
    /\ log' = <<>>
    /\ UNCHANGED <<pc, idx, result, removed>>
    /\ UNCHANGED zvars

\* ---- Observable.notify ------------------------------------------------
\* the list the running for-loop iterates
LoopKey == IF pc = "all" THEN "all" ELSE lastCall.events[1]

LoopList == observers[LoopKey]

\* observer.update(data, event), as the observer sees it
UpdateCall(raised) ==
    [who |-> LoopList[idx], data |-> lastCall.data, event |-> lastCall.events[1],
     loop |-> pc, seq |-> regOrder[LoopKey][idx], raised |-> raised]

\* notify is entered; self._observers['all'] is looked up
Notify(data, event) ==
    /\ pc = "idle"
    /\ clock < MaxCalls
    /\ lastCall' = Call("notify", NoOne, <<event>>, data)
    /\ before' = lastCall
    /\ clock' = clock + 1
    /\ log' = <<>>
    /\ IF "all" \in DOMAIN observers
       THEN pc' = "all" /\ idx' = 1 /\ result' = "running"
       ELSE pc' = "idle" /\ idx' = 0 /\ result' = "raised"
    /\ UNCHANGED <<observers, regOrder, removed>>
    /\ UNCHANGED zvars

\* the next observer of the running loop is updated and returns
UpdateReturns ==
    /\ pc \in {"all", "event"}
    /\ idx <= Len(LoopList)
    /\ log' = Append(log, UpdateCall(FALSE))
    /\ idx' = idx + 1
    /\ UNCHANGED <<observers, regOrder, pc, result, lastCall, before, removed, clock>>
    /\ UNCHANGED zvars

\* the next observer of the running loop is updated; its update calls
\* unregister(self, events) on the Observable that is notifying, and returns.
\* The for-loop goes on with the next index of the list as it is now.
UpdateUnregisters(events) ==
    /\ pc \in {"all", "event"}
    /\ idx <= Len(LoopList)
    /\ LET st == UnregisterEvents([obs |-> observers, ord |-> regOrder],
                                  LoopList[idx], events, 1)
       IN /\ observers' = st.obs
          /\ regOrder' = st.ord
    /\ removed' = IF "all" \in Range(events) THEN removed \cup {LoopList[idx]} ELSE removed
    /\ log' = Append(log, UpdateCall(FALSE))
    /\ idx' = idx + 1
    /\ UNCHANGED <<pc, result, lastCall, before, clock>>
    /\ UNCHANGED zvars

\* notify that catches what update raises and goes on with the next observer
UpdateRaisesCaught ==
    /\ pc \in {"all", "event"}
    /\ idx <= Len(LoopList)
    /\ log' = Append(log, UpdateCall(TRUE))
    /\ idx' = idx + 1
    /\ UNCHANGED <<observers, regOrder, pc, result, lastCall, before, removed, clock>>
    /\ UNCHANGED zvars

\* the next observer of the running loop is updated and raises:
\* nothing catches it, notify is left
UpdateRaises ==
    /\ pc \in {"all", "event"}
    /\ idx <= Len(LoopList)
    /\ log' = Append(log, UpdateCall(TRUE))
    /\ pc' = "idle"
    /\ idx' = 0
    /\ result' = "raised"
    /\ UNCHANGED <<observers, regOrder, lastCall, before, removed, clock>>
    /\ UNCHANGED zvars

\* notify without the test of the keys: a missing event is a KeyError
EndAllLoopKeyError ==
    /\ pc = "all"
    /\ idx > Len(LoopList)
    /\ IF lastCall.events[1] \in DOMAIN observers
       THEN pc' = "event" /\ idx' = 1 /\ result' = result
       ELSE pc' = "idle" /\ idx' = 0 /\ result' = "raised"
    /\ UNCHANGED <<observers, regOrder, log, lastCall, before, removed, clock>>
    /\ UNCHANGED zvars

\* the first loop is exhausted: if event in self._observers.keys()
EndAllLoop ==
    /\ pc = "all"
    /\ idx > Len(LoopList)
    /\ IF lastCall.events[1] \in DOMAIN observers
       THEN pc' = "event" /\ idx' = 1 /\ result' = result
       ELSE pc' = "idle" /\ idx' = 0 /\ result' = "returned"
    /\ UNCHANGED <<observers, regOrder, log, lastCall, before, removed, clock>>
    /\ UNCHANGED zvars

\* the second loop is exhausted: notify returns
EndEventLoop ==
    /\ pc = "event"
    /\ idx > Len(LoopList)
    /\ pc' = "idle"
    /\ idx' = 0
    /\ result' = "returned"
    /\ UNCHANGED <<observers, regOrder, log, lastCall, before, removed, clock>>
    /\ UNCHANGED zvars

\* ---- the ZMQ sockets -------------------------------------------------
\* socket.subscribe(filter): the SUB socket adds the subscription and sends
\* it to the publisher
Subscribe(sock, filter) ==
    [subs |-> [sock.subs EXCEPT ![filter] = @ + 1],
     pending |-> Append(sock.pending, <<"sub", filter>>)]

\* socket.unsubscribe(filter): drops one subscription of that filter, if any
Unsubscribe(sock, filter) ==
    IF sock.subs[filter] > 0
    THEN [subs |-> [sock.subs EXCEPT ![filter] = @ - 1],
          pending |-> Append(sock.pending, <<"unsub", filter>>)]
    ELSE sock

\* the filter an event name stands for: b'' for 'all', else its UTF-8 bytes
FilterOf(event) == IF event = AllStr THEN <<>> ELSE Utf8(event.val)

RECURSIVE WantMore(_, _, _)
WantMore(bag, events, i) ==
    IF i > Len(events)
    THEN bag
    ELSE WantMore([bag EXCEPT ![FilterOf(events[i])] = @ + 1], events, i + 1)

RECURSIVE WantLess(_, _, _)
WantLess(bag, events, i) ==
    IF i > Len(events)
    THEN bag
    ELSE WantLess([bag EXCEPT ![FilterOf(events[i])] = IF @ > 0 THEN @ - 1 ELSE 0],
                  events, i + 1)

\* ---- ZMQObserver.observe / stop_observing -----------------------------
\* observe that subscribes to everything whatever the event
ObserveEventEverything(sock, event) == Subscribe(sock, <<>>)

\* observe without the 'all' case: every event name is its own filter
ObserveEventByName(sock, event) == Subscribe(sock, Encode(event).val)

\* the body of "for event in events" of observe
ObserveEvent(sock, event) ==
    IF event # AllStr
    THEN Subscribe(sock, Encode(event).val)
    ELSE Subscribe(sock, <<>>)

RECURSIVE ObserveEvents(_, _, _)
ObserveEvents(sock, events, i) ==
    IF i > Len(events)
    THEN sock
    ELSE ObserveEvents(ObserveEvent(sock, events[i]), events, i + 1)

\* stop_observing that calls subscribe where it should call unsubscribe
StopObservingEventSubscribes(sock, event) ==
    IF event # AllStr
    THEN Subscribe(sock, Encode(event).val)
    ELSE Subscribe(sock, <<>>)

\* the body of "for event in events" of stop_observing
StopObservingEvent(sock, event) ==
    IF event # AllStr
    THEN Unsubscribe(sock, Encode(event).val)
    ELSE Unsubscribe(sock, <<>>)

RECURSIVE StopObservingEvents(_, _, _)
StopObservingEvents(sock, events, i) ==
    IF i > Len(events)
    THEN sock
    ELSE StopObservingEvents(StopObservingEvent(sock, events[i]), events, i + 1)

\* the arguments observe, stop_observing and the constructor are called with
FilterArgs == {SStr, List(<<ShStr>>)}

CtorArgs == {AllStr, List(<<ShStr>>), List(<<>>)}

Observe(b, events) ==
    /\ bstate[b] # "absent"
    /\ Len(published) + filterCalls < MaxZmqCalls
    /\ LET sock == ObserveEvents([subs |-> subs[b], pending |-> pending[b]],
                                 AsList(events), 1)
       IN /\ subs' = [subs EXCEPT ![b] = sock.subs]
          /\ pending' = [pending EXCEPT ![b] = sock.pending]
    /\ want' = [want EXCEPT ![b] = WantMore(@, AsList(events), 1)]
    /\ filterCalls' = filterCalls + 1
    /\ UNCHANGED <<bstate, bevents, closed, upstream, queue, taken, ctor, published>>
    /\ UNCHANGED lvars

StopObserving(b, events) ==
    /\ bstate[b] # "absent"
    /\ Len(published) + filterCalls < MaxZmqCalls
    /\ LET sock == StopObservingEvents([subs |-> subs[b], pending |-> pending[b]],
                                       AsList(events), 1)
       IN /\ subs' = [subs EXCEPT ![b] = sock.subs]
          /\ pending' = [pending EXCEPT ![b] = sock.pending]
    /\ want' = [want EXCEPT ![b] = WantLess(@, AsList(events), 1)]
    /\ filterCalls' = filterCalls + 1
    /\ UNCHANGED <<bstate, bevents, closed, upstream, queue, taken, ctor, published>>
    /\ UNCHANGED lvars

\* ---- ZMQObserver.__init__ ---------------------------------------------
\* the socket is created and connected, then self.observe(events)
Construct(b, events) ==
    /\ bstate[b] = "absent"
    /\ bstate' = [bstate EXCEPT ![b] = "created"]
    /\ bevents' = [bevents EXCEPT ![b] = IF PyLen(events) = 0 THEN List(<<EmptyStr>>) ELSE events]
    /\ LET sock == ObserveEvents([subs |-> subs[b], pending |-> pending[b]],
                                 AsList(events), 1)
       IN /\ subs' = [subs EXCEPT ![b] = sock.subs]
          /\ pending' = [pending EXCEPT ![b] = sock.pending]
    /\ want' = [want EXCEPT ![b] = WantMore(@, AsList(events), 1)]
    /\ ctor' = [ctor EXCEPT ![b] = events]
    /\ UNCHANGED <<closed, upstream, queue, taken, filterCalls, published>>
    /\ UNCHANGED lvars

\* ---- the PUB socket learns a subscription ------------------------------
PublisherLearns(b) ==
    /\ pending[b] # <<>>
    /\ LET msg == Head(pending[b])
       IN upstream' = [upstream EXCEPT ![b][msg[2]] =
                           IF msg[1] = "sub" THEN @ + 1 ELSE IF @ > 0 THEN @ - 1 ELSE 0]
    /\ pending' = [pending EXCEPT ![b] = Tail(@)]
    /\ UNCHANGED <<bstate, bevents, closed, subs, queue, taken, want, ctor,
                   filterCalls, published>>
    /\ UNCHANGED lvars

\* ---- ZMQObserver.listen -----------------------------------------------
\* listen is called and reaches "await self.zmq_socket.recv_multipart()"
Listen(b) ==
    /\ bstate[b] = "created"
    /\ bstate' = [bstate EXCEPT ![b] = "listening"]
    /\ UNCHANGED <<bevents, closed, subs, pending, upstream, queue, taken, want, ctor,
                   filterCalls, published>>
    /\ UNCHANGED lvars

\* self.update(msg[1], msg[0]), as the observer sees it
Taken(b, dispatched, raised) ==
    LET msg == Head(queue[b]).frame
    IN [id |-> Head(queue[b]).id,
        wanted |-> want[b],
        dispatched |-> dispatched,
        data |-> IF dispatched THEN msg[2] ELSE NoArg,
        event |-> IF dispatched THEN msg[1] ELSE NoArg,
        raised |-> raised]

\* recv_multipart returns the next frame that matches a subscription; update
\* is called with it and returns, and the loop awaits the next frame
Dispatch(b) ==
    /\ bstate[b] = "listening"
    /\ queue[b] # <<>>
    /\ Matches(subs[b], Head(queue[b]).frame[1])
    /\ taken' = [taken EXCEPT ![b] = Append(@, Taken(b, TRUE, FALSE))]
    /\ queue' = [queue EXCEPT ![b] = Tail(@)]
    /\ UNCHANGED <<bstate, bevents, closed, subs, pending, upstream, want, ctor,
                   filterCalls, published>>
    /\ UNCHANGED lvars

\* the same, but update raises: nothing catches it and listen is left
DispatchRaises(b) ==
    /\ bstate[b] = "listening"
    /\ queue[b] # <<>>
    /\ Matches(subs[b], Head(queue[b]).frame[1])
    /\ taken' = [taken EXCEPT ![b] = Append(@, Taken(b, TRUE, TRUE))]
    /\ queue' = [queue EXCEPT ![b] = Tail(@)]
    /\ bstate' = [bstate EXCEPT ![b] = "raised"]
    /\ UNCHANGED <<bevents, closed, subs, pending, upstream, want, ctor,
                   filterCalls, published>>
    /\ UNCHANGED lvars

\* the SUB socket drops a queued frame that matches none of its subscriptions
Discard(b) ==
    /\ bstate[b] = "listening"
    /\ queue[b] # <<>>
    /\ ~Matches(subs[b], Head(queue[b]).frame[1])
    /\ taken' = [taken EXCEPT ![b] = Append(@, Taken(b, FALSE, FALSE))]
    /\ queue' = [queue EXCEPT ![b] = Tail(@)]
    /\ UNCHANGED <<bstate, bevents, closed, subs, pending, upstream, want, ctor,
                   filterCalls, published>>
    /\ UNCHANGED lvars

\* the task running listen is cancelled while it awaits recv_multipart
Cancel(b) ==
    /\ bstate[b] = "listening"
    /\ bstate' = [bstate EXCEPT ![b] = "cancelled"]
    /\ UNCHANGED <<bevents, closed, subs, pending, upstream, queue, taken, want, ctor,
                   filterCalls, published>>
    /\ UNCHANGED lvars

\* recv_multipart raises a transport error
TransportError(b) ==
    /\ bstate[b] = "listening"
    /\ bstate' = [bstate EXCEPT ![b] = "failed"]
    /\ UNCHANGED <<bevents, closed, subs, pending, upstream, queue, taken, want, ctor,
                   filterCalls, published>>
    /\ UNCHANGED lvars

\* ---- SensorsReader.notify (ZMQ) ---------------------------------------
PubEvents == {StStr, ShStr}

\* the two parts the other way round: [str(data).encode(), event.encode()]
FramePayloadFirst(data, event) == <<Encode(PyStr(data)), Encode(event)>>

\* [event.encode(), str(data).encode()]
Frame(data, event) == <<Encode(event), Encode(PyStr(data))>>

\* socket.send_multipart(frame): the PUB socket queues the frame for every
\* SUB socket one of whose known subscriptions matches the first part
Send(queues, frame, id) ==
    [b \in Bridges |->
        IF Matches(upstream[b], frame[1])
        THEN Append(queues[b], [id |-> id, frame |-> frame])
        ELSE queues[b]]

ZmqNotify(data, event) ==
    /\ Len(published) + filterCalls < MaxZmqCalls
    /\ queue' = Send(queue, Frame(data, event), Len(published) + 1)
    /\ published' = Append(published,
                           [data |-> data, event |-> event, frame |-> Frame(data, event),
                            reached |-> {b \in Bridges : bstate[b] # "absent" /\ pending[b] = <<>>},
                            wanted |-> want,
                            listening |-> {b \in Bridges : bstate[b] = "listening"}])
    /\ UNCHANGED <<bstate, bevents, closed, subs, pending, upstream, taken, want, ctor,
                   filterCalls>>
    /\ UNCHANGED lvars

\* ---- specification ----------------------------------------------------
Next ==
    \/ \E o \in Observers, events \in EventLists : Register(o, events)
    \/ \E o \in Observers, events \in EventLists : Unregister(o, events)
    \/ Reset
    \/ \E data \in Payloads, event \in Events : Notify(data, event)
    \/ UpdateReturns
    \/ UpdateRaises
    \/ EndAllLoop
    \/ EndEventLoop

Spec == Init /\ [][Next]_vars

\* the ZMQ observers and the ZMQ publisher
NextZmq ==
    \/ \E b \in Bridges, events \in CtorArgs : Construct(b, events)
    \/ \E b \in Bridges, events \in FilterArgs : Observe(b, events)
    \/ \E b \in Bridges, events \in FilterArgs : StopObserving(b, events)
    \/ \E b \in Bridges : PublisherLearns(b)
    \/ \E b \in Bridges : Listen(b)
    \/ \E b \in Bridges : Dispatch(b)
    \/ \E b \in Bridges : DispatchRaises(b)
    \/ \E b \in Bridges : Discard(b)
    \/ \E b \in Bridges : Cancel(b)
    \/ \E b \in Bridges : TransportError(b)
    \/ \E v \in Values, event \in PubEvents : ZmqNotify(Dict(v), event)

SpecZmq == Init /\ [][NextZmq]_vars

\* a SensorsReader that inherits the registry of Observable and overrides notify
NextPub ==
    \/ \E o \in Observers, event \in Events : Register(o, <<event>>)
    \/ \E v \in Values, event \in PubEvents : ZmqNotify(Dict(v), event)

SpecPub == Init /\ [][NextPub]_vars

\* the Observable with observers whose update unregisters them
NextCallback ==
    \/ \E o \in Observers, event \in Events : Register(o, <<event>>)
    \/ \E data \in Payloads, event \in Events : Notify(data, event)
    \/ UpdateReturns
    \/ \E event \in Events : UpdateUnregisters(<<event>>)
    \/ EndAllLoop
    \/ EndEventLoop

SpecCallback == Init /\ [][NextCallback]_vars

TypeOK ==
    /\ DOMAIN observers \subseteq Events
    /\ DOMAIN regOrder = DOMAIN observers
    /\ \A e \in DOMAIN observers : Len(regOrder[e]) = Len(observers[e])
    /\ pc \in {"idle", "all", "event"}
    /\ clock \in 0..MaxCalls

\* ======================================================================
\* Properties
\* ======================================================================
FreshDict == [e \in {"all"} |-> <<>>]

Updates(o) == Cardinality({i \in 1..Len(log) : log[i].who = o})

Receivers == [i \in 1..Len(log) |-> log[i].who]

\* every update call of the latest notify carried the arguments of that notify
ArgsPassed ==
    \A i \in 1..Len(log) :
        log[i].data = lastCall.data /\ log[i].event = lastCall.events[1]

NotifyEnded == lastCall.op = "notify" /\ pc = "idle"

NotifyReturned == NotifyEnded /\ result = "returned"

\* the lists notify walks, one after the other
DeliveryOrder ==
    observers["all"] \o (IF lastCall.events[1] \in DOMAIN observers
                         THEN observers[lastCall.events[1]]
                         ELSE <<>>)

\* the latest call is notify(.., t) and the call before it was register(o, t)
RegisteredThenNotified(o, t) ==
    /\ lastCall.op = "notify"
    /\ lastCall.events = <<t>>
    /\ before.op = "register"
    /\ before.who = o
    /\ before.events = <<t>>

C2_WildcardExactlyOnce ==
    \A o \in Observers, t \in Events :
        (/\ lastCall.op = "notify"
         /\ lastCall.events = <<t>>
         /\ before.op = "register"
         /\ before.who = o
         /\ before.events = <<"all">>
         /\ before.held = {}
         /\ DOMAIN observers = {"all"}
         /\ NotifyEnded)
            => (Updates(o) = 1 /\ ArgsPassed)

\* ---- C3 ---------------------------------------------------------------
\* C3: register is idempotent: a register(S, T) that follows a
\* register(S, T) leaves every list as the first one left it.
C3_RegisterIdempotent ==
    [][\A o \in Observers, t \in Events :
          (/\ lastCall.op = "register" /\ lastCall.who = o /\ lastCall.events = <<t>>
           /\ clock' = clock + 1
           /\ lastCall'.op = "register" /\ lastCall'.who = o /\ lastCall'.events = <<t>>)
              => observers' = observers]_vars

\* ---- C4 ---------------------------------------------------------------
\* C4: when S is in the "all" list, register(S, T) for a named event T
\* leaves the dictionary unchanged.
C4_RegisterIgnoredWhenInAll ==
    [][\A o \in Observers, t \in Events \ {"all"} :
          (/\ In(o, observers["all"])
           /\ clock' = clock + 1
           /\ lastCall'.op = "register" /\ lastCall'.who = o /\ lastCall'.events = <<t>>)
              => observers' = observers]_vars

\* ---- C5 ---------------------------------------------------------------
\* C5: once unregister(S, "all") was called, and until S is registered
\* again, S is in no list and no notify calls S's update.
C5_UnregisterAllRemoves ==
    \A o \in removed : o \notin Held(observers) /\ Updates(o) = 0

\* ---- C6 ---------------------------------------------------------------
\* C6: after reset() the dictionary is {"all": []}, as after construction,
\* and a notify that follows it ends without having called any update.
C6_ResetIsFresh ==
    /\ lastCall.op = "reset" => observers = FreshDict
    /\ (lastCall.op = "notify" /\ before.op = "reset")
           => /\ observers = FreshDict
              /\ log = <<>>
              /\ result # "raised"

\* a registry that held observers was reset and the notify that followed
\* has returned
C6_Witness ==
    /\ NotifyReturned
    /\ before.op = "reset"
    /\ before.held # {}

\* ---- C7 ---------------------------------------------------------------
\* C7: in every reachable state the dictionary has the key "all".
C7_AllListExists == "all" \in DOMAIN observers

\* a registry that held observers in a named list has just been reset
C7_Witness ==
    /\ lastCall.op = "reset"
    /\ lastCall.held # {}
    /\ clock >= 3
    /\ observers = FreshDict

\* ---- C8 ---------------------------------------------------------------
\* C8: no list of the dictionary holds the same observer twice.
C8_NoDuplicates ==
    \A e \in DOMAIN observers :
        \A i, j \in 1..Len(observers[e]) :
            i # j => observers[e][i] # observers[e][j]

\* ---- C9 ---------------------------------------------------------------
\* C9: within one notify every update call made for the "all" list comes
\* before every call made for the event's list, inside each list the calls
\* follow the order of registration, and a notify that returns has called
\* exactly the "all" list followed by the event's list.
C9_DeliveryOrder ==
    /\ \A i, j \in 1..Len(log) :
           i < j => /\ ~(log[i].loop = "event" /\ log[j].loop = "all")
                    /\ log[i].loop = log[j].loop => log[i].seq < log[j].seq
    /\ NotifyReturned => Receivers = DeliveryOrder

\* a notify has called an observer of the "all" list and then two different
\* observers of a named event's list
C9_Witness ==
    /\ NotifyReturned
    /\ lastCall.events[1] # "all"
    /\ \E i, j, k \in 1..Len(log) :
           /\ i < j /\ j < k
           /\ log[i].loop = "all" /\ log[j].loop = "event" /\ log[k].loop = "event"
           /\ log[j].who # log[k].who

\* ---- C10 --------------------------------------------------------------
\* C10: an update that raises ends the notify with that error: it is the
\* last call of the notify, and the calls made until then are exactly the
\* head of the delivery order, each entry called once.
C10_RaiseAborts ==
    /\ \A i \in 1..Len(log) :
           log[i].raised => (i = Len(log) /\ pc = "idle" /\ result = "raised")
    /\ (NotifyEnded /\ result = "raised")
           => /\ Len(log) >= 1
              /\ log[Len(log)].raised
              /\ Len(log) <= Len(DeliveryOrder)
              /\ Receivers = SubSeq(DeliveryOrder, 1, Len(log))

\* an update raised after another observer was called and before the last
\* one of the delivery order was reached
C10_Witness ==
    /\ NotifyEnded
    /\ result = "raised"
    /\ Len(log) >= 2
    /\ Len(log) < Len(DeliveryOrder)

Occurrences(o, list) == Cardinality({i \in 1..Len(list) : list[i] = o})

UpdatesIn(o, loop) == Cardinality({i \in 1..Len(log) : log[i].who = o /\ log[i].loop = loop})

\* ---- C11 --------------------------------------------------------------
\* C11: a notify for an event that has no list ends without an error of
\* its own: the only updates called are those of the "all" list, in order,
\* an error can only be the one an update raised, and with no observer
\* registered at all the notify returns having called no one.
C11_UnknownEventSilent ==
    (NotifyEnded /\ lastCall.events[1] \notin DOMAIN observers)
        => /\ \A i \in 1..Len(log) : log[i].loop = "all"
           /\ Len(log) <= Len(observers["all"])
           /\ Receivers = SubSeq(observers["all"], 1, Len(log))
           /\ result = "raised" => (Len(log) >= 1 /\ log[Len(log)].raised)
           /\ Held(observers) = {} => (log = <<>> /\ result = "returned")

\* a notify for an event without a list has returned after calling an
\* observer of the "all" list
C11_Witness ==
    /\ NotifyReturned
    /\ lastCall.events[1] \notin DOMAIN observers
    /\ Len(log) >= 1

\* ---- C12 --------------------------------------------------------------
\* C12: unregister(S, T) for a named event T leaves every list other than
\* T's as it was and adds or drops no key; when T has no list or S is not
\* in T's list the whole dictionary is left as it was.
C12_UnregisterNamedFrame ==
    [][\A o \in Observers, t \in Events \ {"all"} :
          (/\ clock' = clock + 1
           /\ lastCall'.op = "unregister" /\ lastCall'.who = o /\ lastCall'.events = <<t>>)
              => /\ DOMAIN observers' = DOMAIN observers
                 /\ \A e \in DOMAIN observers \ {t} : observers'[e] = observers[e]
                 /\ (t \notin DOMAIN observers \/ ~In(o, observers[t]))
                        => observers' = observers]_vars

\* an observer was taken out of a named event's list, its only list, while
\* the "all" list holds another observer
C12_Witness ==
    /\ lastCall.op = "unregister"
    /\ Len(lastCall.events) = 1
    /\ lastCall.events[1] # "all"
    /\ lastCall.who \in lastCall.held
    /\ lastCall.who \notin Held(observers)
    /\ observers["all"] # <<>>

\* ---- C13 --------------------------------------------------------------
\* C13: an observer that is in a named event T's list when it registers
\* to "all" is held in both lists, and notify(payload, T) then calls its
\* update once for the "all" list and once for every entry it has in T's
\* list: twice when it was registered to T once.
C13_BothListsDeliverTwice ==
    \A o \in Observers, t \in Events \ {"all"} :
        (/\ NotifyReturned
         /\ lastCall.events = <<t>>
         /\ before.op = "register" /\ before.who = o /\ before.events = <<"all">>
         /\ t \in DOMAIN observers
         /\ In(o, observers[t]))
            => /\ In(o, observers["all"])
               /\ UpdatesIn(o, "all") = 1
               /\ UpdatesIn(o, "event") = Occurrences(o, observers[t])
               /\ Occurrences(o, observers[t]) = 1 => Updates(o) = 2

\* an observer registered to a named event, then to "all", was called twice
\* by the notify that followed
C13_Witness ==
    \E o \in Observers, t \in Events \ {"all"} :
        /\ NotifyReturned
        /\ lastCall.events = <<t>>
        /\ before.op = "register" /\ before.who = o /\ before.events = <<"all">>
        /\ o \in before.held
        /\ t \in DOMAIN observers
        /\ Occurrences(o, observers[t]) = 1
        /\ Updates(o) = 2

\* ======================================================================
\* Properties of the ZMQ observer and publisher
\* ======================================================================
\* the update calls a ZMQObserver has made, in order
Dispatched(b) == SelectSeq(taken[b], LAMBDA t : t.dispatched)

Ids(seq) == {seq[i].id : i \in 1..Len(seq)}

\* the first part of the frame of a notify call
TopicBytes(p) == Bytes(Utf8(p.event.val))

\* ---- C14 --------------------------------------------------------------
\* C14: a ZMQObserver's update is called only for frames whose first part
\* starts with a filter the observer asked for and still holds when the
\* frame is received, a received frame that does start with one is passed
\* to update, and update gets that frame's first part as its event: an
\* observer whose only filter is 'sh' is never called for a frame of 'st'.
C14_OnlyMatchingFrames ==
    \A b \in Bridges : \A i \in 1..Len(taken[b]) :
        LET t == taken[b][i]
            p == published[t.id]
        IN /\ t.dispatched <=> Matches(t.wanted, TopicBytes(p))
           /\ t.dispatched => t.event.val = TopicBytes(p).val

\* an observer constructed with ['sh'] was listening with its subscription
\* known to the publisher when a frame of 'st' and a frame of 'sh' were
\* sent, and has been called for the frame of 'sh' only
C14_Witness ==
    \E b \in Bridges :
        /\ ctor[b] = List(<<ShStr>>)
        /\ filterCalls = 0
        /\ Len(published) = 2
        /\ published[1].event = StStr /\ published[2].event = ShStr
        /\ \A i \in 1..2 : b \in published[i].reached /\ b \in published[i].listening
        /\ bstate[b] = "listening"
        /\ queue[b] = <<>>
        /\ Ids(Dispatched(b)) = {2}

\* ---- C15 --------------------------------------------------------------
\* C15: for a ZMQObserver constructed with 'all', the frames passed to
\* update followed by the frames waiting in its socket are, once each and
\* in the order sent, all the frames the publisher sent from some frame on,
\* and every frame sent after the subscription had reached the publisher is
\* among them; none is dropped by the socket.
C15_WildcardGetsEveryFrame ==
    \A b \in Bridges :
        ctor[b] = AllStr =>
            LET got == [i \in 1..Len(taken[b]) |-> taken[b][i].id]
                       \o [i \in 1..Len(queue[b]) |-> queue[b][i].id]
                first == Len(published) - Len(got) + 1
            IN /\ \A i \in 1..Len(taken[b]) : taken[b][i].dispatched
               /\ \A i \in 1..Len(got) : got[i] = first + i - 1
               /\ \A i \in 1..Len(published) :
                      b \in published[i].reached => i >= first

\* an observer constructed with 'all' is listening and has been called for
\* two frames of different events, in the order sent
C15_Witness ==
    \E b \in Bridges :
        /\ ctor[b] = AllStr
        /\ bstate[b] = "listening"
        /\ Len(published) = 2
        /\ published[1].event # published[2].event
        /\ Len(Dispatched(b)) = 2
        /\ Dispatched(b)[1].id = 1 /\ Dispatched(b)[2].id = 2

\* ---- C16 --------------------------------------------------------------
\* C16: when listen has been left by a cancellation or by an error of the
\* receive, the observer's socket has been closed.
C16_SocketClosedOnExit ==
    \A b \in Bridges : bstate[b] \in {"cancelled", "failed"} => closed[b]

\* ---- C17 --------------------------------------------------------------
\* the name an event of the ZMQ classes has in the registry of Observable
LocalName(event) ==
    CASE event = AllStr -> "all"
      [] event = SStr -> "s"
      [] event = StStr -> "st"
      [] event = ShStr -> "sh"
      [] OTHER -> ""

LocalNames(events) == [i \in 1..Len(events) |-> LocalName(events[i])]

\* the lists notify walks for an event, one after the other
NotifyOrder(obs, event) ==
    obs["all"] \o (IF event \in DOMAIN obs THEN obs[event] ELSE <<>>)

Copies(n, x) == [i \in 1..n |-> x]

\* what an observer registered with these events on a new Observable is
\* called with by the notify calls pubs[1..n]
RECURSIVE LocalCalls(_, _, _)
LocalCalls(events, pubs, n) ==
    IF n = 0
    THEN <<>>
    ELSE LET obs == RegisterEvents(NewState, "o1", LocalNames(events), 1).obs
         IN LocalCalls(events, pubs, n - 1)
                \o Copies(Occurrences("o1", NotifyOrder(obs, LocalName(pubs[n].event))),
                          <<pubs[n].data, pubs[n].event>>)

RemoteCalls(b) == [i \in 1..Len(Dispatched(b)) |-> <<Dispatched(b)[i].data, Dispatched(b)[i].event>>]

\* C17: a ZMQObserver constructed with some events, listening since before
\* the first notify with its subscriptions known to the publisher, and with
\* nothing left to receive, has been called with the same (payload, event)
\* pairs as an observer registered with those events on an Observable that
\* gets the same notify calls.
C17_RemoteEqualsLocal ==
    \A b \in Bridges :
        (/\ bstate[b] = "listening"
         /\ filterCalls = 0
         /\ queue[b] = <<>>
         /\ \A i \in 1..Len(published) :
                b \in published[i].reached /\ b \in published[i].listening)
            => RemoteCalls(b) = LocalCalls(AsList(ctor[b]), published, Len(published))

\* ---- C18 --------------------------------------------------------------
\* C18: a notify of the ZMQ publisher sends one frame of two parts, the
\* bytes of the event and the bytes of the payload's string, whether or not
\* anyone is subscribed, and leaves the registry and the record of local
\* update calls as they were.
C18_NotifySendsOneFrame ==
    [][Len(published') = Len(published) + 1
          => /\ SubSeq(published', 1, Len(published)) = published
             /\ LET p == published'[Len(published')]
                IN /\ Len(p.frame) = 2
                   /\ p.frame[1] = TopicBytes(p)
                   /\ p.frame[2] = Bytes(Utf8(PyStr(p.data).val))
             /\ observers' = observers
             /\ regOrder' = regOrder
             /\ log' = log
             /\ pc' = pc]_vars

\* the publisher holds registered observers, no ZMQObserver exists, and two
\* notify calls have sent their frames
C18_Witness ==
    /\ Held(observers) # {}
    /\ \A b \in Bridges : bstate[b] = "absent"
    /\ Len(published) = 2
    /\ log = <<>>

\* ---- C19 --------------------------------------------------------------
\* C19: every update call of listen gets the payload the publisher's notify
\* was given and the event string it was given, payload first.
C19_UpdateGetsDecodedPair ==
    \A b \in Bridges : \A i \in 1..Len(taken[b]) :
        taken[b][i].dispatched
            => /\ taken[b][i].data = published[taken[b][i].id].data
               /\ taken[b][i].event = published[taken[b][i].id].event

\* ---- C20 --------------------------------------------------------------
\* observe and stop_observing leave the listen loop, the queue and the calls
\* made so far as they are
FilterCallKeepsListening ==
    filterCalls' = filterCalls + 1
        => (bstate' = bstate /\ queue' = queue /\ taken' = taken)

\* C20 as stated: observe and stop_observing do not end a running listen;
\* a frame sent after observe(T) returned and matching T has been passed to
\* update once a listening observer that still holds the same
\* filters has nothing left to receive; and a frame that matched no filter the
\* observer held when it was sent is never passed to update.
C20_FilterCallsTakeEffectAtOnce ==
    /\ [](\A b \in Bridges :
            /\ \A i \in 1..Len(published) :
                   (/\ b \in published[i].listening
                    /\ Matches(published[i].wanted[b], TopicBytes(published[i]))
                    /\ published[i].wanted[b] = want[b]
                    /\ bstate[b] = "listening"
                    /\ queue[b] = <<>>)
                       => i \in Ids(Dispatched(b))
            /\ \A i \in 1..Len(taken[b]) :
                   taken[b][i].dispatched
                       => Matches(published[taken[b][i].id].wanted[b],
                                  TopicBytes(published[taken[b][i].id])))
    /\ [][FilterCallKeepsListening]_vars

\* C20 as amended: observe and stop_observing do not end a running listen;
\* a frame sent once the observer's subscriptions have reached the publisher
\* and matching one of them is delivered to the observer's socket; and a
\* delivered frame is passed to update if and only if it matches a filter
\* the observer holds when the frame is received.
C20_FilterCallsTakeEffectOnceKnown ==
    /\ [](\A b \in Bridges :
            /\ \A i \in 1..Len(published) :
                   (/\ b \in published[i].reached
                    /\ Matches(published[i].wanted[b], TopicBytes(published[i])))
                       => i \in Ids(taken[b]) \cup Ids(queue[b])
            /\ \A i \in 1..Len(taken[b]) :
                   taken[b][i].dispatched
                       <=> Matches(taken[b][i].wanted, TopicBytes(published[taken[b][i].id])))
    /\ [][FilterCallKeepsListening]_vars

\* an observer constructed without a filter was listening when a first frame
\* was sent, then observed a filter, and has been called for a second frame,
\* sent when the new subscription had reached the publisher
C20_Witness ==
    \E b \in Bridges :
        /\ ctor[b] = List(<<>>)
        /\ bstate[b] = "listening"
        /\ Len(published) = 2
        /\ b \in published[1].listening
        /\ ~Matches(published[1].wanted[b], TopicBytes(published[1]))
        /\ b \in published[2].reached
        /\ Ids(Dispatched(b)) = {2}

\* ---- C21 --------------------------------------------------------------
\* C21: a listen loop that has called update and has been neither cancelled
\* nor failed by the transport is back at its receive, so that the frames
\* still waiting in its socket can be passed to update in their turn.
C21_LoopReturnsToReceive ==
    \A b \in Bridges :
        (taken[b] # <<>> /\ bstate[b] \notin {"cancelled", "failed"})
            => bstate[b] = "listening"

\* ---- C22 --------------------------------------------------------------
\* C22: when a notify during which an update unregistered its own observer
\* has returned, every observer that was once in the lists the notify was
\* going to walk when it began has been updated exactly once.
C22_OthersStillUpdatedOnce ==
    (/\ NotifyReturned
     /\ \A o \in Observers : Occurrences(o, lastCall.order) <= 1
     /\ WalkOrder(lastCall.events[1]) # lastCall.order)
        => \A o \in Range(lastCall.order) : Updates(o) = 1

\* ---- C23 --------------------------------------------------------------
\* C23: as long as neither observe nor stop_observing has been called, the
\* subscriptions of a ZMQObserver's socket are the filters of the events
\* recorded in its events attribute: the empty prefix for the [''] recorded
\* when it is constructed with an empty list.
C23_FiltersAreRecordedEvents ==
    \A b \in Bridges :
        (bstate[b] # "absent" /\ filterCalls = 0)
            => subs[b] = WantMore(EmptyBag(Filters), AsList(bevents[b]), 1)
====
